---- MODULE Spec2Model ----
(***************************************************************************)
(* Model of scanservice/handling.go (aquasecurity/webhook-server):         *)
(* ScanService.ResultHandling, the policy gate it evaluates per            *)
(* (scan, plugin) pair, the count- and time-based aggregation steps, the   *)
(* per-plugin scheduler goroutine and the fire-and-forget send.            *)
(*                                                                         *)
(* Strings are modelled as TLA+ strings when they are only compared, and   *)
(* as sequences of tokens when the code takes them apart or joins them     *)
(* (the image path, the owners list, the url).                             *)
(*                                                                         *)
(* Code of the repository that handling.go calls but that lives in other   *)
(* packages (dbservice.AggregateScans, dbservice.HandleCurrentInfo,        *)
(* parseImageInfo, compliesPolicies, isRegoCorrect, SeverityIndexes,       *)
(* buildAggregatedContent, buildMapContent, layout.GenTicketDescription)   *)
(* is modelled from the specification's description of its interface.      *)
(***************************************************************************)
EXTENDS Integers, Sequences, FiniteSets, TLC

(***************************************************************************)
(* Bounds of the model.                                                    *)
(***************************************************************************)
\* number of ResultHandling calls that may run concurrently
MaxCalls == 2
\* number of scans that arrive in a behaviour of the concurrent specifications
MaxScans == 2
\* number of scans that arrive in a behaviour of the sequential specification
MaxSeqScans == 5
\* number of store calls that fail in a behaviour
MaxFailures == 1

Calls == 1..MaxCalls

\* keys of the plugins map handed to ResultHandling
PluginNames == {"p1", "p2"}

(***************************************************************************)
(* Severity model.                                                         *)
(***************************************************************************)
\* scanservice.SeverityIndexes: lower-case level name -> index into vulns
SeverityIndexes ==
    [negligible |-> 0, low |-> 1, medium |-> 2, high |-> 3, critical |-> 4]

\* strings.ToLower on the spellings the model feeds it
ToLower(s) ==
    CASE s = "Negligible" -> "negligible"
      [] s = "LOW"        -> "low"
      [] s = "Medium"     -> "medium"
      [] s = "HIGH"       -> "high"
      [] s = "High"       -> "high"
      [] s = "CRITICAL"   -> "critical"
      [] s = "Critical"   -> "critical"
      [] OTHER            -> s

\* a Go map read: the zero value for a key that is not in the map
SeverityIndex(level) ==
    IF level \in DOMAIN SeverityIndexes THEN SeverityIndexes[level] ELSE 0

\* vulns := [...]int{Negligible, Low, Medium, High, Critical}, 1-based here
Vulns(info) ==
    <<info.Negligible, info.Low, info.Medium, info.High, info.Critical>>

\* the loop of checkVulnerabilitiesLevel starting one level too high
checkVulnerabilitiesLevelOffByOne(info, minLevel) ==
    \E i \in (SeverityIndex(ToLower(minLevel)) + 1)..4 : Vulns(info)[i + 1] > 0

\* for i := SeverityIndexes[ToLower(minLevel)]; i < len(vulns); i++
checkVulnerabilitiesLevel(info, minLevel) ==
    \E i \in SeverityIndex(ToLower(minLevel))..4 : Vulns(info)[i + 1] > 0

\* some vulnerability of some resource has a non-empty FixVersion
checkFixVersions(info) ==
    \E r \in 1..Len(info.Resources) :
        \E v \in 1..Len(info.Resources[r]) : info.Resources[r][v] # ""

(***************************************************************************)
(* Pattern lists.                                                          *)
(***************************************************************************)
\* one pattern against one target (both token sequences): the pattern
\* engine, here equality and the wildcard "*"
Matches(pattern, target) == pattern = <<"*">> \/ pattern = target

\* compliesPolicies: the target matches any one pattern of the list
compliesPolicies(patterns, target) ==
    \E k \in 1..Len(patterns) : Matches(patterns[k], target)

(***************************************************************************)
(* Strings that are joined or rewritten.                                   *)
(***************************************************************************)
RECURSIVE Join(_, _)
\* strings.Join(parts, sep), as the sequence of its tokens
Join(parts, sep) ==
    IF Len(parts) = 0 THEN <<>>
    ELSE IF Len(parts) = 1 THEN <<parts[1]>>
    ELSE <<parts[1], sep>> \o Join(Tail(parts), sep)

\* the image name as one string: its path segments joined by "/"
ImageName(info) == Join(info.Image, "/")

(***************************************************************************)
(* The policy gate, lines 40-91: nine checks in the order of the code.     *)
(***************************************************************************)
Checks == <<"old", "minVulnerability", "ignoreRegistry", "ignoreImageName",
            "policyImageName", "policyRegistry", "nonCompliant",
            "onlyFixAvailable", "opa">>

\* outcomes of the external policy evaluator isRegoCorrect
OpaOutcomes == {"error", "deny", "allow"}

\* line 40 without the negation of PolicyShowAll
IsOldShowAllInverted(isNew, st) == ~isNew /\ st.PolicyShowAll

\* line 40: the scan is a repeat and the plugin did not ask for repeats
IsOld(isNew, st) == ~isNew /\ ~st.PolicyShowAll

\* whether check k rejects the pair (the condition of its if statement)
CheckFails(k, info, isNew, st, opa) ==
    CASE k = 1 -> IsOld(isNew, st)
      [] k = 2 -> st.PolicyMinVulnerability # ""
                  /\ ~checkVulnerabilitiesLevel(info, st.PolicyMinVulnerability)
      [] k = 3 -> Len(st.IgnoreRegistry) > 0
                  /\ compliesPolicies(st.IgnoreRegistry, info.Registry)
      [] k = 4 -> Len(st.IgnoreImageName) > 0
                  /\ compliesPolicies(st.IgnoreImageName, ImageName(info))
      [] k = 5 -> Len(st.PolicyImageName) > 0
                  /\ ~compliesPolicies(st.PolicyImageName, ImageName(info))
      [] k = 6 -> Len(st.PolicyRegistry) > 0
                  /\ ~compliesPolicies(st.PolicyRegistry, info.Registry)
      [] k = 7 -> st.PolicyNonCompliant /\ ~info.Disallowed
      [] k = 8 -> st.PolicyOnlyFixAvailable /\ ~checkFixVersions(info)
      [] k = 9 -> Len(st.PolicyOPA) > 0 /\ opa # "allow"

\* the checks that reject; the chain stops at the first of them
Failing(info, isNew, st, opa) ==
    {k \in 1..Len(Checks) : CheckFails(k, info, isNew, st, opa)}

\* FirstFailing for a chain that evaluates every check and reports the last
\* one that rejects
LastFailing(info, isNew, st, opa) ==
    LET F == Failing(info, isNew, st, opa)
    IN IF F = {} THEN 0 ELSE CHOOSE k \in F : \A j \in F : k >= j

\* index of the check whose `continue` is taken, 0 when the pair passes
FirstFailing(info, isNew, st, opa) ==
    LET F == Failing(info, isNew, st, opa)
    IN IF F = {} THEN 0 ELSE CHOOSE k \in F : \A j \in F : k <= j

\* the checks whose condition the code evaluates for the pair
ChecksRun(info, isNew, st, opa) ==
    LET f == FirstFailing(info, isNew, st, opa)
    IN IF f = 0 THEN 1..Len(Checks) ELSE 1..f

\* isRegoCorrect is called: line 83 is reached and PolicyOPA is not empty
EvaluatorInvoked(info, isNew, st, opa) ==
    /\ 9 \in ChecksRun(info, isNew, st, opa)
    /\ Len(st.PolicyOPA) > 0

(***************************************************************************)
(* Raw payloads, parsing and the prior-scan lookup (scan.init).            *)
(***************************************************************************)
\* a nil *data.ScanImageInfo
NoInfo == [nil |-> TRUE]

\* the fields of a scan the code reads
DefaultBody ==
    [Registry |-> <<"reg1">>, Image |-> <<"lib", "app">>,
     Negligible |-> 0, Low |-> 1, Medium |-> 0, High |-> 1, Critical |-> 0,
     Resources |-> << <<"", "1.2.3">> >>, Disallowed |-> TRUE,
     ApplicationScopeOwners |-> <<"teamA", "teamB">>]

\* parseImageInfo: the structured scan of a payload, or an error
parseImageInfo(input) ==
    IF input.valid
    THEN [err |-> FALSE, info |-> [nil |-> FALSE, uid |-> input.id] @@ input.body]
    ELSE [err |-> TRUE, info |-> NoInfo]

\* results of dbservice.HandleCurrentInfo: (prevScanSource, isNew, err);
\* prev is <<>> (no previous payload) or <<payload>>
Lookup(err, isNew, prev) == [err |-> err, isNew |-> isNew, prev |-> prev]

PrevPayload(valid) == [valid |-> valid, id |-> 0, body |-> DefaultBody]

\* scan.init without the return of lines 195-197: the error of the prior-scan
\* lookup is dropped
initDropsLookupError(input, lookup) ==
    LET parsed == parseImageInfo(input)
        fresh  == [scanInfo |-> parsed.info, prevScan |-> NoInfo,
                   isNew |-> FALSE, err |-> FALSE]
    IN IF parsed.err THEN [fresh EXCEPT !.err = TRUE]
       ELSE IF ~lookup.isNew THEN fresh
       ELSE IF Len(lookup.prev) > 0
            THEN LET prev == parseImageInfo(lookup.prev[1])
                 IN [fresh EXCEPT !.isNew = TRUE, !.prevScan = prev.info,
                                  !.err = prev.err]
            ELSE [fresh EXCEPT !.isNew = TRUE]

\* scan.init, lines 188-207: the fields of the ScanService after it, and err
init(input, lookup) ==
    LET parsed == parseImageInfo(input)
        fresh  == [scanInfo |-> parsed.info, prevScan |-> NoInfo,
                   isNew |-> FALSE, err |-> FALSE]
    IN IF parsed.err THEN [fresh EXCEPT !.err = TRUE]
       ELSE IF lookup.err THEN [fresh EXCEPT !.err = TRUE, !.isNew = lookup.isNew]
       ELSE IF ~lookup.isNew THEN fresh
       ELSE IF Len(lookup.prev) > 0
            THEN LET prev == parseImageInfo(lookup.prev[1])
                 IN [fresh EXCEPT !.isNew = TRUE, !.prevScan = prev.info,
                                  !.err = prev.err]
            ELSE [fresh EXCEPT !.isNew = TRUE]

(***************************************************************************)
(* Notification content.                                                   *)
(***************************************************************************)
\* a nil map[string]string
NilContent == [kind |-> "nil"]

\* len(content) of the Go map: the number of its keys
ContentLen(cnt) ==
    CASE cnt.kind = "nil"    -> 0
      [] cnt.kind = "single" -> IF cnt.owners = <<>> THEN 4 ELSE 5
      [] cnt.kind = "merged" -> IF Len(cnt.items) = 0 THEN 0 ELSE 3

\* layout.GenTicketDescription(provider, scanInfo, prevScan, link)
GenTicketDescription(provider, info, prev, link) ==
    [provider |-> provider, scan |-> info.uid,
     prev |-> IF prev.nil THEN <<>> ELSE <<prev.uid>>, link |-> link]

\* scan.getContent, lines 180-186, with buildMapContent's three fields
getContent(info, prev, provider, server) ==
    LET url == info.Registry \o <<"/">> \o Join(info.Image, "%2F")
    IN [kind  |-> "single",
        title |-> ImageName(info) \o <<" vulnerability scan report">>,
        description |-> GenTicketDescription(provider, info, prev, <<server>> \o url),
        url   |-> url]

\* lines 93-101: the content of one scan for one plugin
BuildContent(s, plugin) ==
    LET owners == IF Len(s.scanInfo.ApplicationScopeOwners) > 0
                  THEN Join(s.scanInfo.ApplicationScopeOwners, ";") ELSE <<>>
        server == plugin.settings.AquaServer
    IN getContent(s.scanInfo, s.prevScan, plugin.provider, server)
       @@ [src |-> s.input.id, owners |-> owners]

\* buildAggregatedContent: N contents in, one content out
buildAggregatedContent(items, provider) ==
    [kind |-> "merged", provider |-> provider, items |-> items]

(***************************************************************************)
(* The aggregation store (dbservice.AggregateScans) and its wrapper.       *)
(***************************************************************************)
\* a successful accept(content, counts, ignoreLength) on bucket b: the new
\* bucket and the batch returned
AggregateScans(b, cnt, counts, ignoreLength) ==
    LET b1 == IF ContentLen(cnt) > 0 THEN Append(b, cnt) ELSE b
    IN IF ignoreLength /\ ContentLen(cnt) > 0
       THEN [bucket |-> b1, batch |-> <<>>, err |-> FALSE]
       ELSE IF ignoreLength \/ Len(b1) >= counts
       THEN [bucket |-> <<>>, batch |-> b1, err |-> FALSE]
       ELSE [bucket |-> b1, batch |-> <<>>, err |-> FALSE]

\* a failing accept: an error, with the item queued or not and with or
\* without a batch beside the error
AggregateScansFailures(b, cnt) ==
    LET b1 == IF ContentLen(cnt) > 0 THEN Append(b, cnt) ELSE b
    IN {[bucket |-> b, batch |-> <<>>, err |-> TRUE],
        [bucket |-> b1, batch |-> <<>>, err |-> TRUE],
        [bucket |-> b, batch |-> b1, err |-> TRUE]}

\* what one store call may answer; mayFail: the store is allowed to fail
StoreAnswers(b, cnt, counts, ignoreLength, mayFail) ==
    {AggregateScans(b, cnt, counts, ignoreLength)}
    \cup (IF mayFail THEN AggregateScansFailures(b, cnt) ELSE {})

\* the wrapper with line 152 testing only the content: a batch the store
\* returned for a call that carried content is dropped
AggregateScanAndGetQueueDropsBatch(answer, currentContent) ==
    IF answer.err THEN answer.batch
    ELSE IF ContentLen(currentContent) # 0 THEN <<>>
    ELSE answer.batch

\* AggregateScanAndGetQueue, lines 146-157, on the store's answer
AggregateScanAndGetQueue(answer, currentContent) ==
    IF answer.err THEN answer.batch
    ELSE IF ContentLen(currentContent) # 0 /\ Len(answer.batch) = 0 THEN <<>>
    ELSE answer.batch

(***************************************************************************)
(* State.                                                                  *)
(***************************************************************************)
VARIABLES
    plugins,     \* name -> [nil, provider, settings]: the plugins map; the
                 \* settings record is the one GetSettings() points to
    bucket,      \* name -> sequence of contents: the store's bucket
    sched,       \* name -> sequence of scheduler goroutines [pc, queue, by];
                 \* by (history): id of the scan whose call started it
    sent,        \* name -> sequence of [content, by]: one per `go plg.Send`
    delivered,   \* name -> indexes in sent of the Send calls that returned
    pc,          \* call -> position of the ResultHandling call
    scan,        \* call -> the ScanService fields and the input
    todo,        \* call -> plugin names the range loop has not visited
    cur,         \* call -> name of the loop iteration
    content,     \* call -> local content
    wasHandled,  \* call -> local wasHandled
    nscans,      \* scans arrived so far
    nfail,       \* store calls that failed so far
    \* history, not in the code
    arrivals,    \* scan id -> what arrived: [valid, lookup]
    arrived,     \* name -> items the store accepted, in the order accepted
    requests,    \* shapes of the store calls made
    evaluated,   \* <<scan id, name, outcome>> of each isRegoCorrect call
    outcome      \* call -> visited name -> [rule, log, sent, spawned]: what
                 \* the call did for the pair; log: its store calls

vars == <<plugins, bucket, sched, sent, delivered, pc, scan, todo, cur, content,
          wasHandled, nscans, nfail, arrivals, arrived, requests, evaluated,
          outcome>>

store == <<bucket, arrived, requests, nfail>>

(***************************************************************************)
(* Plugin configurations.                                                  *)
(***************************************************************************)
DefaultSettings(name) ==
    [PluginName |-> name, AquaServer |-> "https://aqua/",
     PolicyShowAll |-> FALSE, PolicyMinVulnerability |-> "",
     IgnoreRegistry |-> <<>>, IgnoreImageName |-> <<>>,
     PolicyImageName |-> <<>>, PolicyRegistry |-> <<>>,
     PolicyNonCompliant |-> FALSE, PolicyOnlyFixAvailable |-> FALSE,
     PolicyOPA |-> <<>>,
     AggregateIssuesNumber |-> 0, AggregateTimeoutSeconds |-> 0,
     IsScheduleRun |-> FALSE]

\* a plugin of the map: nil, or one with its layout provider and settings
Plugin(name, isNil, options) ==
    [nil |-> isNil, provider |-> name,
     settings |-> options @@ DefaultSettings(name)]

(***************************************************************************)
(* ResultHandling, one call c.                                             *)
(***************************************************************************)
Settings(n) == plugins[n].settings

\* the end of the loop body: the next iteration, or return after the last
NextIteration(c, n) ==
    /\ todo' = [todo EXCEPT ![c] = @ \ {n}]
    /\ pc' = [pc EXCEPT ![c] = IF todo[c] \ {n} = {} THEN "returned" ELSE "loop"]

\* Skip with a `return` in place of the `continue` of lines 85 and 89
SkipReturnsOnEvaluator(c, n, rule) ==
    IF rule = 9
    THEN /\ pc' = [pc EXCEPT ![c] = "returned"]
         /\ UNCHANGED todo
    ELSE NextIteration(c, n)

\* Skip for a gate whose checks log and do not `continue`: the pair goes on
\* to the aggregation steps
SkipFallsThrough(c, n, rule) ==
    /\ pc' = [pc EXCEPT ![c] = "aggregate"]
    /\ UNCHANGED todo

\* the `continue` of check `rule` (-1: the nil plugin of line 33)
Skip(c, n, rule) == NextIteration(c, n)

\* lines 21-30: a payload arrives, scan.init runs
Begin(c, arrivalSet, maxScans) ==
    /\ pc[c] \in {"idle", "returned"}
    /\ nscans < maxScans
    /\ \E a \in arrivalSet :
         LET input == [valid |-> a.valid, id |-> nscans + 1, body |-> a.body]
             s == init(input, a.lookup)
         IN /\ scan' = [scan EXCEPT ![c] = s @@ [input |-> input]]
            /\ pc' = [pc EXCEPT ![c] = IF s.err THEN "returned" ELSE "loop"]
            /\ todo' = [todo EXCEPT ![c] = IF s.err THEN {} ELSE PluginNames]
            /\ arrivals' = Append(arrivals, [valid |-> a.valid, lookup |-> a.lookup])
    /\ nscans' = nscans + 1
    /\ cur' = [cur EXCEPT ![c] = ""]
    /\ content' = [content EXCEPT ![c] = NilContent]
    /\ wasHandled' = [wasHandled EXCEPT ![c] = FALSE]
    /\ outcome' = [outcome EXCEPT ![c] = <<>>]
    /\ UNCHANGED <<plugins, sched, sent, delivered, store, evaluated>>

\* what the call has done for a pair when its gate has just run
Visited(rule) == [rule |-> rule, log |-> <<>>, sent |-> FALSE, spawned |-> FALSE]

\* lines 32-103: the loop takes a plugin (map order is arbitrary), skips a
\* nil one, runs the gate and, when the pair passes, builds the content
Gate(c) ==
    /\ pc[c] = "loop"
    /\ \E n \in todo[c], opa \in OpaOutcomes :
         LET s == scan[c]
             st == Settings(n)
             f == IF plugins[n].nil THEN -1
                  ELSE FirstFailing(s.scanInfo, s.isNew, st, opa)
             called == ~plugins[n].nil
                       /\ EvaluatorInvoked(s.scanInfo, s.isNew, st, opa)
         IN /\ cur' = [cur EXCEPT ![c] = n]
            /\ outcome' = [outcome EXCEPT ![c] = (n :> Visited(f)) @@ @]
            /\ evaluated' = IF called
                            THEN evaluated \cup {<<s.input.id, n, opa>>}
                            ELSE evaluated
            /\ IF f # 0
               THEN /\ Skip(c, n, f)
                    /\ UNCHANGED <<content, wasHandled>>
               ELSE /\ content' = [content EXCEPT ![c] = BuildContent(s, plugins[n])]
                    /\ wasHandled' = [wasHandled EXCEPT ![c] = FALSE]
                    /\ pc' = [pc EXCEPT ![c] = "aggregate"]
                    /\ UNCHANGED todo
    /\ UNCHANGED <<plugins, sched, sent, delivered, store, scan, nscans, arrivals>>

\* The aggregation steps work on a frame: the locals of the iteration and
\* the store's state for the plugin.
Frame(c, n) ==
    [content |-> content[c], wasHandled |-> wasHandled[c],
     bucket |-> bucket[n], arrived |-> arrived[n], requests |-> requests,
     log |-> outcome[c][n].log, nfail |-> nfail]

\* one call of AggregateScanAndGetQueue from frame f: the store changes the
\* bucket and answers
StoreCall(f, n, cnt, counts, ignoreLength, by, answer) ==
    [f EXCEPT
       !.bucket = answer.bucket,
       !.arrived = IF ContentLen(cnt) > 0 /\ ~answer.err THEN Append(@, cnt) ELSE @,
       !.requests = @ \cup
          {[name |-> n, nilContent |-> ContentLen(cnt) = 0, counts |-> counts,
            ignoreLength |-> ignoreLength, by |-> by]},
       !.log = Append(@, [ignoreLength |-> ignoreLength, err |-> answer.err]),
       !.nfail = IF answer.err THEN @ + 1 ELSE @]

\* CountStep without the else branch of line 108: a queued scan's own
\* content stays in `content`
CountStepKeepsContent(f, n, mayFail) ==
    LET st == Settings(n)
    IN IF st.AggregateIssuesNumber > 0
       THEN {LET aggregated == AggregateScanAndGetQueue(answer, f.content)
                 g == StoreCall(f, n, f.content, st.AggregateIssuesNumber,
                                FALSE, "call", answer)
             IN [g EXCEPT
                   !.content = IF Len(aggregated) > 0
                               THEN buildAggregatedContent(aggregated, plugins[n].provider)
                               ELSE f.content,
                   !.wasHandled = TRUE] :
             answer \in StoreAnswers(f.bucket, f.content, st.AggregateIssuesNumber,
                                     FALSE, mayFail /\ f.nfail < MaxFailures)}
       ELSE {f}

\* CountStep with 0 in place of AggregateIssuesNumber in the call of line 105
CountStepZeroThreshold(f, n, mayFail) ==
    LET st == Settings(n)
    IN IF st.AggregateIssuesNumber > 0
       THEN {LET aggregated == AggregateScanAndGetQueue(answer, f.content)
                 g == StoreCall(f, n, f.content, 0, FALSE, "call", answer)
             IN [g EXCEPT
                   !.content = IF Len(aggregated) > 0
                               THEN buildAggregatedContent(aggregated, plugins[n].provider)
                               ELSE NilContent,
                   !.wasHandled = TRUE] :
             answer \in StoreAnswers(f.bucket, f.content, 0,
                                     FALSE, mayFail /\ f.nfail < MaxFailures)}
       ELSE {f}

\* lines 104-112: count-based aggregation; the frames it may end in
CountStep(f, n, mayFail) ==
    LET st == Settings(n)
    IN IF st.AggregateIssuesNumber > 0
       THEN {LET aggregated == AggregateScanAndGetQueue(answer, f.content)
                 g == StoreCall(f, n, f.content, st.AggregateIssuesNumber,
                                FALSE, "call", answer)
             IN [g EXCEPT
                   !.content = IF Len(aggregated) > 0
                               THEN buildAggregatedContent(aggregated, plugins[n].provider)
                               ELSE NilContent,
                   !.wasHandled = TRUE] :
             answer \in StoreAnswers(f.bucket, f.content, st.AggregateIssuesNumber,
                                     FALSE, mayFail /\ f.nfail < MaxFailures)}
       ELSE {f}

\* TimeStep without line 117: the queued content is not set to nil
TimeStepKeepsContent(f, n, mayFail) ==
    IF Settings(n).AggregateTimeoutSeconds > 0 /\ ~f.wasHandled
    THEN {StoreCall(f, n, f.content, 0, TRUE, "call", answer) :
          answer \in StoreAnswers(f.bucket, f.content, 0, TRUE,
                                  mayFail /\ f.nfail < MaxFailures)}
    ELSE {f}

\* TimeStep without the condition of line 114: the content is queued
\* whatever the interval is
TimeStepUnconditional(f, n, mayFail) ==
    IF ~f.wasHandled
    THEN {[StoreCall(f, n, f.content, 0, TRUE, "call", answer)
             EXCEPT !.content = NilContent] :
          answer \in StoreAnswers(f.bucket, f.content, 0, TRUE,
                                  mayFail /\ f.nfail < MaxFailures)}
    ELSE {f}

\* TimeStep without the test of wasHandled at line 115
TimeStepIgnoresHandled(f, n, mayFail) ==
    IF Settings(n).AggregateTimeoutSeconds > 0
    THEN {[StoreCall(f, n, f.content, 0, TRUE, "call", answer)
             EXCEPT !.content = NilContent] :
          answer \in StoreAnswers(f.bucket, f.content, 0, TRUE,
                                  mayFail /\ f.nfail < MaxFailures)}
    ELSE {f}

\* lines 114-118: time-based aggregation queues what the count step did not
TimeStep(f, n, mayFail) ==
    IF Settings(n).AggregateTimeoutSeconds > 0 /\ ~f.wasHandled
    THEN {[StoreCall(f, n, f.content, 0, TRUE, "call", answer)
             EXCEPT !.content = NilContent] :
          answer \in StoreAnswers(f.bucket, f.content, 0, TRUE,
                                  mayFail /\ f.nfail < MaxFailures)}
    ELSE {f}

\* lines 103-118 as one step: they make at most one store call
Aggregate(c, mayFail) ==
    /\ pc[c] = "aggregate"
    /\ LET n == cur[c]
       IN \E f1 \in CountStep(Frame(c, n), n, mayFail) :
          \E f2 \in TimeStep(f1, n, mayFail) :
            /\ content' = [content EXCEPT ![c] = f2.content]
            /\ wasHandled' = [wasHandled EXCEPT ![c] = f2.wasHandled]
            /\ bucket' = [bucket EXCEPT ![n] = f2.bucket]
            /\ arrived' = [arrived EXCEPT ![n] = f2.arrived]
            /\ requests' = f2.requests
            /\ nfail' = f2.nfail
            /\ outcome' = [outcome EXCEPT ![c][n].log = f2.log]
            /\ pc' = [pc EXCEPT ![c] =
                  IF Settings(n).AggregateTimeoutSeconds > 0 THEN "check"
                  ELSE "dispatch"]
    /\ UNCHANGED <<plugins, sched, sent, delivered, scan, todo, cur, nscans, arrivals, evaluated>>

\* CheckSchedule for a body of line 119's if statement without the go
\* statement: the flag is set and no goroutine is started
CheckScheduleWithoutGo(c) ==
    /\ pc[c] = "check"
    /\ pc' = [pc EXCEPT ![c] =
          IF ~Settings(cur[c]).IsScheduleRun THEN "setflag" ELSE "dispatch"]
    /\ UNCHANGED <<plugins, sched, sent, delivered, store, scan, todo, cur,
                   content, wasHandled, nscans, arrivals, evaluated, outcome>>

\* line 119: the read of IsScheduleRun
CheckSchedule(c) ==
    /\ pc[c] = "check"
    /\ pc' = [pc EXCEPT ![c] =
          IF ~Settings(cur[c]).IsScheduleRun THEN "spawn" ELSE "dispatch"]
    /\ UNCHANGED <<plugins, sched, sent, delivered, store, scan, todo, cur, content,
                   wasHandled, nscans, arrivals, evaluated, outcome>>

\* lines 120-131: go func(nm) starts a scheduler goroutine
SpawnScheduler(c) ==
    /\ pc[c] = "spawn"
    /\ sched' = [sched EXCEPT ![cur[c]] =
          Append(@, [pc |-> "sleep", queue |-> <<>>, by |-> scan[c].input.id])]
    /\ outcome' = [outcome EXCEPT ![c][cur[c]].spawned = TRUE]
    /\ pc' = [pc EXCEPT ![c] = "setflag"]
    /\ UNCHANGED <<plugins, sent, delivered, store, scan, todo, cur, content, wasHandled,
                   nscans, arrivals, evaluated>>

\* line 132: currentSettings.IsScheduleRun = true
SetScheduleRun(c) ==
    /\ pc[c] = "setflag"
    /\ plugins' = [plugins EXCEPT ![cur[c]].settings.IsScheduleRun = TRUE]
    /\ pc' = [pc EXCEPT ![c] = "dispatch"]
    /\ UNCHANGED <<sched, sent, delivered, store, scan, todo, cur, content, wasHandled,
                   nscans, arrivals, evaluated, outcome>>

\* send, lines 142-144: go plg.Send(cnt)
send(n, cnt, by) ==
    sent' = [sent EXCEPT ![n] = Append(@, [content |-> cnt, by |-> by])]

\* Dispatch with `plg.Send(cnt)` in place of `go plg.Send(cnt)` at line 143,
\* for a Send that does not return: the call stays inside it
DispatchInline(c) ==
    /\ pc[c] = "dispatch"
    /\ IF ContentLen(content[c]) > 0
       THEN /\ send(cur[c], content[c], <<"call", scan[c].input.id>>)
            /\ outcome' = [outcome EXCEPT ![c][cur[c]].sent = TRUE]
            /\ pc' = [pc EXCEPT ![c] = "sending"]
            /\ UNCHANGED todo
       ELSE /\ UNCHANGED <<sent, outcome>>
            /\ NextIteration(c, cur[c])
    /\ UNCHANGED <<plugins, sched, delivered, store, scan, cur, content,
                   wasHandled, nscans, arrivals, evaluated>>

\* lines 136-139: send what is left in content, end of the loop body
Dispatch(c) ==
    /\ pc[c] = "dispatch"
    /\ IF ContentLen(content[c]) > 0
       THEN /\ send(cur[c], content[c], <<"call", scan[c].input.id>>)
            /\ outcome' = [outcome EXCEPT ![c][cur[c]].sent = TRUE]
       ELSE UNCHANGED <<sent, outcome>>
    /\ NextIteration(c, cur[c])
    /\ UNCHANGED <<plugins, sched, delivered, store, scan, cur, content,
                   wasHandled, nscans, arrivals, evaluated>>

(***************************************************************************)
(* The scheduler goroutine i of plugin n, lines 124-130.                   *)
(***************************************************************************)
local == <<pc, scan, todo, cur, content, wasHandled, nscans, arrivals,
           evaluated, outcome>>

\* line 125: time.Sleep returns
Elapse(n, i) ==
    /\ sched[n][i].pc = "sleep"
    /\ sched' = [sched EXCEPT ![n][i].pc = "drain"]
    /\ UNCHANGED <<plugins, sent, delivered, store, local>>

\* Drained without the test of line 127: the queue is sent even when empty
DrainedAlwaysSends(queue) == [pc |-> "send", queue |-> queue]

\* line 127: the goroutine after the test of the queue the drain returned
Drained(queue) ==
    IF Len(queue) > 0 THEN [pc |-> "send", queue |-> queue]
    ELSE [pc |-> "sleep", queue |-> <<>>]

\* Drain with `true` as the last argument of the call of line 126
DrainIgnoringLength(n, i, mayFail) ==
    /\ sched[n][i].pc = "drain"
    /\ \E answer \in StoreAnswers(bucket[n], NilContent, 0, TRUE,
                                   mayFail /\ nfail < MaxFailures) :
         LET queue == AggregateScanAndGetQueue(answer, NilContent)
         IN /\ bucket' = [bucket EXCEPT ![n] = answer.bucket]
            /\ requests' = requests \cup
                  {[name |-> n, nilContent |-> TRUE, counts |-> 0,
                    ignoreLength |-> TRUE, by |-> "sched"]}
            /\ nfail' = IF answer.err THEN nfail + 1 ELSE nfail
            /\ sched' = [sched EXCEPT ![n][i] = Drained(queue) @@ @]
    /\ UNCHANGED <<plugins, sent, delivered, arrived, local>>

\* lines 126-127: the drain request and the test of its answer
Drain(n, i, mayFail) ==
    /\ sched[n][i].pc = "drain"
    /\ \E answer \in StoreAnswers(bucket[n], NilContent, 0, FALSE,
                                   mayFail /\ nfail < MaxFailures) :
         LET queue == AggregateScanAndGetQueue(answer, NilContent)
         IN /\ bucket' = [bucket EXCEPT ![n] = answer.bucket]
            /\ requests' = requests \cup
                  {[name |-> n, nilContent |-> TRUE, counts |-> 0,
                    ignoreLength |-> FALSE, by |-> "sched"]}
            /\ nfail' = IF answer.err THEN nfail + 1 ELSE nfail
            /\ sched' = [sched EXCEPT ![n][i] = Drained(queue) @@ @]
    /\ UNCHANGED <<plugins, sent, delivered, arrived, local>>

\* Flush without the send of line 128: the drained queue is dropped
FlushWithoutSend(n, i) ==
    /\ sched[n][i].pc = "send"
    /\ sched' = [sched EXCEPT ![n][i] = [pc |-> "sleep", queue |-> <<>>] @@ @]
    /\ UNCHANGED <<plugins, sent, delivered, store, local>>

\* line 128: send(plg, buildAggregatedContent(queue, ...))
Flush(n, i) ==
    /\ sched[n][i].pc = "send"
    /\ send(n, buildAggregatedContent(sched[n][i].queue, plugins[n].provider),
            <<"sched", i>>)
    /\ sched' = [sched EXCEPT ![n][i] = [pc |-> "sleep", queue |-> <<>>] @@ @]
    /\ UNCHANGED <<plugins, delivered, store, local>>

(***************************************************************************)
(* The goroutine of `go plg.Send(cnt)`, line 143: task j of plugin n.  It  *)
(* returns or it never does; nothing in this package waits for it.         *)
(***************************************************************************)
SendReturns(n, j) ==
    /\ j \in 1..Len(sent[n])
    /\ j \notin delivered[n]
    /\ delivered' = [delivered EXCEPT ![n] = @ \cup {j}]
    /\ UNCHANGED <<plugins, sched, sent, store, local>>

(***************************************************************************)
(* Workloads: what arrives, and how the plugins are configured.            *)
(***************************************************************************)
Arrival(valid, lookup, body) == [valid |-> valid, lookup |-> lookup, body |-> body]

\* a payload that parses and a lookup that succeeds: a new scan without a
\* previous one, a new scan with one, and a repeat of a recorded result
NewScan  == Arrival(TRUE, Lookup(FALSE, TRUE, <<>>), DefaultBody)
NewScanWithPrev ==
    Arrival(TRUE, Lookup(FALSE, TRUE, <<PrevPayload(TRUE)>>), DefaultBody)
OldScan  == Arrival(TRUE, Lookup(FALSE, FALSE, <<>>), DefaultBody)
\* the three ways scan.init fails
BadPayload   == Arrival(FALSE, Lookup(FALSE, TRUE, <<>>), DefaultBody)
LookupFails  == Arrival(TRUE, Lookup(TRUE, FALSE, <<>>), DefaultBody)
BadPrevPayload ==
    Arrival(TRUE, Lookup(FALSE, TRUE, <<PrevPayload(FALSE)>>), DefaultBody)

\* the options the specifications vary, per plugin
AggregationOptions ==
    {[PolicyShowAll |-> sa, PolicyOPA |-> rules,
      AggregateIssuesNumber |-> k, AggregateTimeoutSeconds |-> t] :
        sa \in BOOLEAN, rules \in {<<>>, <<"rules.rego">>},
        k \in {0, 2}, t \in {0, 30}}

\* the four aggregation modes, for a plugin without external policy rules
AggregationModes ==
    {o \in AggregationOptions : ~o.PolicyShowAll /\ o.PolicyOPA = <<>>}

TimeOnly == [AggregateIssuesNumber |-> 0, AggregateTimeoutSeconds |-> 30]

NoAggregation == [AggregateIssuesNumber |-> 0, AggregateTimeoutSeconds |-> 0]

InitWith(configs) ==
    /\ plugins \in configs
    /\ bucket = [n \in PluginNames |-> <<>>]
    /\ sched = [n \in PluginNames |-> <<>>]
    /\ sent = [n \in PluginNames |-> <<>>]
    /\ delivered = [n \in PluginNames |-> {}]
    /\ pc = [c \in Calls |-> "idle"]
    /\ scan = [c \in Calls |-> [input |-> [valid |-> FALSE, id |-> 0, body |-> DefaultBody],
                                scanInfo |-> NoInfo, prevScan |-> NoInfo,
                                isNew |-> FALSE, err |-> FALSE]]
    /\ todo = [c \in Calls |-> {}]
    /\ cur = [c \in Calls |-> ""]
    /\ content = [c \in Calls |-> NilContent]
    /\ wasHandled = [c \in Calls |-> FALSE]
    /\ nscans = 0
    /\ nfail = 0
    /\ arrivals = <<>>
    /\ arrived = [n \in PluginNames |-> <<>>]
    /\ requests = {}
    /\ evaluated = {}
    /\ outcome = [c \in Calls |-> <<>>]

CallStep(c, arrivalSet, maxScans, mayFail) ==
    \/ Begin(c, arrivalSet, maxScans)
    \/ Gate(c)
    \/ Aggregate(c, mayFail)
    \/ CheckSchedule(c)
    \/ SpawnScheduler(c)
    \/ SetScheduleRun(c)
    \/ Dispatch(c)

\* the goroutines that exist: plugin name and index
Schedulers == UNION {{<<n, i>> : i \in 1..Len(sched[n])} : n \in PluginNames}

SchedulerStep(mayFail) ==
    \/ \E g \in Schedulers : Elapse(g[1], g[2])
    \/ \E g \in Schedulers : Drain(g[1], g[2], mayFail)
    \/ \E g \in Schedulers : Flush(g[1], g[2])

(***************************************************************************)
(* Spec: concurrent ResultHandling calls and the schedulers they start,    *)
(* over a store whose accept is atomic and does not fail.  p1 takes each   *)
(* aggregation mode, p2 sends at once.                                     *)
(***************************************************************************)
MainArrivals == {NewScan}

MainConfigs ==
    {[n \in PluginNames |->
        IF n = "p1" THEN Plugin(n, FALSE, o) ELSE Plugin(n, FALSE, NoAggregation)] :
        o \in AggregationModes}

Init == InitWith(MainConfigs)

Next ==
    \/ \E c \in Calls : CallStep(c, MainArrivals, MaxScans, FALSE)
    \/ SchedulerStep(FALSE)

Spec == Init /\ [][Next]_vars

(***************************************************************************)
(* SpecPolicy: one call after another, every kind of arrival and every     *)
(* evaluator outcome, a store that may fail; p1 takes every combination of *)
(* the options, p2 aggregates by time.                                     *)
(***************************************************************************)
PolicyArrivals == {NewScan, OldScan, BadPayload, LookupFails, BadPrevPayload}

PolicyConfigs ==
    {[n \in PluginNames |->
        IF n = "p1" THEN Plugin(n, FALSE, o) ELSE Plugin(n, FALSE, TimeOnly)] :
        o \in AggregationOptions}

InitPolicy == InitWith(PolicyConfigs)

NextPolicy ==
    \/ CallStep(1, PolicyArrivals, MaxScans, TRUE)
    \/ SchedulerStep(TRUE)

SpecPolicy == InitPolicy /\ [][NextPolicy]_vars

(***************************************************************************)
(* SpecSeq: one call after another, new scans only, a store that never     *)
(* fails; p1 aggregates by count, p2 by time.                              *)
(***************************************************************************)
SeqArrivals == {NewScan, NewScanWithPrev}

SeqConfigs ==
    {[n \in PluginNames |->
        IF n = "p1"
        THEN Plugin(n, FALSE, [AggregateIssuesNumber |-> k, AggregateTimeoutSeconds |-> 0])
        ELSE Plugin(n, FALSE, TimeOnly)] : k \in {2, 3}}

InitSeq == InitWith(SeqConfigs)

NextSeq ==
    \/ CallStep(1, SeqArrivals, MaxSeqScans, FALSE)
    \/ SchedulerStep(FALSE)

SpecSeq == InitSeq /\ [][NextSeq]_vars

(***************************************************************************)
(* SpecSeverity: one scan, every combination of the five finding counts    *)
(* being zero or not, against every spelling of the minimum level.         *)
(***************************************************************************)
MaxGateScans == 1

LevelSpellings ==
    {"Negligible", "negligible", "LOW", "low", "Medium", "medium",
     "HIGH", "High", "high", "CRITICAL", "critical"}

SeverityArrivals ==
    {Arrival(TRUE, Lookup(FALSE, TRUE, <<>>),
             [DefaultBody EXCEPT !.Negligible = v[1], !.Low = v[2], !.Medium = v[3],
                                 !.High = v[4], !.Critical = v[5]]) :
        v \in [1..5 -> {0, 2}]}

SeverityConfigs ==
    {[n \in PluginNames |->
        IF n = "p1" THEN Plugin(n, FALSE, [PolicyMinVulnerability |-> l])
        ELSE Plugin(n, FALSE, TimeOnly)] : l \in LevelSpellings}

InitSeverity == InitWith(SeverityConfigs)

NextSeverity ==
    \/ CallStep(1, SeverityArrivals, MaxGateScans, FALSE)
    \/ SchedulerStep(FALSE)

SpecSeverity == InitSeverity /\ [][NextSeverity]_vars

(***************************************************************************)
(* SpecBoth: one call after another, new scans only, a store that never    *)
(* fails; p1 has both aggregation modes, p2 sends at once.                 *)
(***************************************************************************)
BothConfigs ==
    {[n \in PluginNames |->
        IF n = "p1"
        THEN Plugin(n, FALSE, [AggregateIssuesNumber |-> k, AggregateTimeoutSeconds |-> 30])
        ELSE Plugin(n, FALSE, NoAggregation)] : k \in {2, 3}}

InitBoth == InitWith(BothConfigs)

NextBoth ==
    \/ CallStep(1, SeqArrivals, MaxSeqScans, FALSE)
    \/ SchedulerStep(FALSE)

SpecBoth == InitBoth /\ [][NextBoth]_vars

(***************************************************************************)
(* SpecGate: one scan against every combination of the nine policy options *)
(* being set or not, for scans that differ in each fact the gate reads.    *)
(* p1 aggregates by time, p2 is a nil entry of the plugins map.            *)
(***************************************************************************)
GateOptions ==
    {[PolicyShowAll |-> sa, PolicyMinVulnerability |-> mv,
      IgnoreRegistry |-> ir, IgnoreImageName |-> ii,
      PolicyImageName |-> pi, PolicyRegistry |-> pr,
      PolicyNonCompliant |-> nc, PolicyOnlyFixAvailable |-> fx,
      PolicyOPA |-> rules] @@ TimeOnly :
        sa \in BOOLEAN, mv \in {"", "Critical"},
        ir \in {<<>>, << <<"reg2">> >>}, ii \in {<<>>, << <<"lib", "/", "db">> >>},
        pi \in {<<>>, << <<"lib", "/", "app">> >>}, pr \in {<<>>, << <<"reg1">> >>},
        nc \in BOOLEAN, fx \in BOOLEAN, rules \in {<<>>, <<"rules.rego">>}}

GateArrivals ==
    {Arrival(TRUE, Lookup(FALSE, new, <<>>),
             [DefaultBody EXCEPT !.Registry = reg, !.Image = img, !.Critical = cr,
                                 !.Disallowed = dis, !.Resources = res]) :
        new \in BOOLEAN, reg \in {<<"reg1">>, <<"reg2">>, <<"reg3">>},
        img \in {<<"lib", "app">>, <<"lib", "db">>}, cr \in {0, 1},
        dis \in BOOLEAN, res \in {<< <<"", "1.2.3">> >>, << <<"">> >>}}

GateConfigs ==
    {[n \in PluginNames |->
        IF n = "p1" THEN Plugin(n, FALSE, o) ELSE Plugin(n, TRUE, NoAggregation)] :
        o \in GateOptions}

InitGate == InitWith(GateConfigs)

NextGate ==
    \/ CallStep(1, GateArrivals, MaxGateScans, FALSE)
    \/ SchedulerStep(FALSE)

SpecGate == InitGate /\ [][NextGate]_vars

(***************************************************************************)
(* SpecFrame: one scan of each kind of SpecGate; p1 sets no policy option  *)
(* or exactly one of the nine, p2 is a nil entry or a plugin without       *)
(* policy options; both aggregate by time.                                 *)
(***************************************************************************)
\* the options with which no check rejects
NoPolicy ==
    [PolicyShowAll |-> TRUE, PolicyMinVulnerability |-> "",
     IgnoreRegistry |-> <<>>, IgnoreImageName |-> <<>>,
     PolicyImageName |-> <<>>, PolicyRegistry |-> <<>>,
     PolicyNonCompliant |-> FALSE, PolicyOnlyFixAvailable |-> FALSE,
     PolicyOPA |-> <<>>] @@ TimeOnly

FrameOptions ==
    {NoPolicy,
     [NoPolicy EXCEPT !.PolicyShowAll = FALSE],
     [NoPolicy EXCEPT !.PolicyMinVulnerability = "Critical"],
     [NoPolicy EXCEPT !.IgnoreRegistry = << <<"reg2">> >>],
     [NoPolicy EXCEPT !.IgnoreImageName = << <<"lib", "/", "db">> >>],
     [NoPolicy EXCEPT !.PolicyImageName = << <<"lib", "/", "app">> >>],
     [NoPolicy EXCEPT !.PolicyRegistry = << <<"reg1">> >>],
     [NoPolicy EXCEPT !.PolicyNonCompliant = TRUE],
     [NoPolicy EXCEPT !.PolicyOnlyFixAvailable = TRUE],
     [NoPolicy EXCEPT !.PolicyOPA = <<"rules.rego">>]}

FrameConfigs ==
    {[n \in PluginNames |->
        IF n = "p1" THEN Plugin(n, FALSE, o) ELSE Plugin(n, isNil, NoPolicy)] :
        o \in FrameOptions, isNil \in BOOLEAN}

InitFrame == InitWith(FrameConfigs)

NextFrame ==
    \/ CallStep(1, GateArrivals, MaxGateScans, FALSE)
    \/ SchedulerStep(FALSE)

SpecFrame == InitFrame /\ [][NextFrame]_vars

(***************************************************************************)
(* SpecLive: one call after another, the schedulers and the Send           *)
(* goroutines, with the goroutines of this package scheduled fairly.  The  *)
(* first Send of each plugin never returns; any other may return, or not.  *)
(* p1 sends at once or has both aggregation modes, p2 aggregates by time.  *)
(***************************************************************************)
LiveArrivals == {NewScan}

BothModes == [AggregateIssuesNumber |-> 2, AggregateTimeoutSeconds |-> 30]

LiveConfigs ==
    {[n \in PluginNames |->
        IF n = "p1" THEN Plugin(n, FALSE, o) ELSE Plugin(n, FALSE, TimeOnly)] :
        o \in {NoAggregation, BothModes}}

\* the Send calls that never return
Hangs(n, j) == j = 1

InitLive == InitWith(LiveConfigs)

\* the steps of call c after the arrival of its scan
Proceed(c) ==
    \/ Gate(c)
    \/ Aggregate(c, FALSE)
    \/ CheckSchedule(c)
    \/ SpawnScheduler(c)
    \/ SetScheduleRun(c)
    \/ Dispatch(c)

\* the steps of scheduler goroutine i of plugin n
Loop(n, i) ==
    /\ i \in 1..Len(sched[n])
    /\ (Elapse(n, i) \/ Drain(n, i, FALSE) \/ Flush(n, i))

NextLive ==
    \/ CallStep(1, LiveArrivals, MaxScans, FALSE)
    \/ SchedulerStep(FALSE)
    \/ \E n \in PluginNames, j \in 1..MaxScans : ~Hangs(n, j) /\ SendReturns(n, j)

\* a goroutine that can take a step is not delayed forever: the calls, and
\* the schedulers (a call starts at most one, so at most MaxScans exist)
FairLive ==
    /\ \A c \in Calls : WF_vars(Proceed(c))
    /\ \A n \in PluginNames, i \in 1..MaxScans : WF_vars(Loop(n, i))

SpecLive == InitLive /\ [][NextLive]_vars /\ FairLive

(***************************************************************************)
(* Properties.                                                             *)
(***************************************************************************)
CountBased(n) ==
    /\ ~plugins[n].nil
    /\ Settings(n).AggregateIssuesNumber > 0
    /\ Settings(n).AggregateTimeoutSeconds = 0

TimeBased(n) ==
    /\ ~plugins[n].nil
    /\ Settings(n).AggregateIssuesNumber = 0
    /\ Settings(n).AggregateTimeoutSeconds > 0

\* the call is between the gate and the end of the loop body for plugin n
Handling(c, n) ==
    cur[c] = n /\ pc[c] \in {"aggregate", "check", "spawn", "setflag", "dispatch"}

\* the same, after the aggregation steps
Aggregated(c, n) ==
    cur[c] = n /\ pc[c] \in {"check", "spawn", "setflag", "dispatch"}

\* the items a content carries out of the bucket
Items(cnt) == IF cnt.kind = "merged" THEN cnt.items ELSE <<>>

RECURSIVE Flatten(_)
\* the concatenation of a sequence of sequences
Flatten(ss) == IF Len(ss) = 0 THEN <<>> ELSE ss[1] \o Flatten(Tail(ss))

\* the items of the batches sent to plugin n, in the order sent
SentItems(n) == Flatten([j \in 1..Len(sent[n]) |-> Items(sent[n][j].content)])

\* the items the schedulers of plugin n hold between drain and send
HeldBySchedulers(n) == Flatten([i \in 1..Len(sched[n]) |-> sched[n][i].queue])

\* the items the calls hold for plugin n between the store call and send
HeldByCalls(n) ==
    Flatten([c \in Calls |-> IF Aggregated(c, n) THEN Items(content[c]) ELSE <<>>])

\* number of places of sequence q that hold x
Count(q, x) == Cardinality({j \in 1..Len(q) : q[j] = x})

Range(q) == {q[j] : j \in 1..Len(q)}

\* C1: for every plugin, however the concurrent calls interleave, at most
\* one scheduler goroutine is ever started.
C1_SchedulerStartedAtMostOnce ==
    \A n \in PluginNames : Len(sched[n]) <= 1

\* C2: for a count-based plugin with threshold N, after k accepted scans
\* there have been k \div N dispatches (the last of them possibly still in
\* the hands of the call); the j-th is made by the call of the (j*N)-th scan
\* and is the merge of scans (j-1)*N+1 .. j*N in arrival order; the bucket
\* holds the k - (k \div N)*N < N scans of the open window.
C2_CountWindows ==
    \A n \in PluginNames : CountBased(n) =>
        LET N == Settings(n).AggregateIssuesNumber
            k == Len(arrived[n])
            Window(j) == buildAggregatedContent(
                            SubSeq(arrived[n], (j - 1) * N + 1, j * N),
                            plugins[n].provider)
            holders == {c \in Calls : Aggregated(c, n) /\ ContentLen(content[c]) > 0}
        IN /\ Len(sent[n]) + Cardinality(holders) = k \div N
           /\ \A j \in 1..Len(sent[n]) :
                sent[n][j] = [content |-> Window(j),
                              by |-> <<"call", arrived[n][j * N].src>>]
           /\ \A c \in holders :
                /\ content[c] = Window(k \div N)
                /\ scan[c].input.id = arrived[n][k].src
           /\ bucket[n] = SubSeq(arrived[n], (k \div N) * N + 1, k)
           /\ Len(bucket[n]) < N

\* two windows were dispatched and a third is open
C2_Witness ==
    \E n \in PluginNames :
        CountBased(n) /\ Len(sent[n]) = 2 /\ Len(bucket[n]) = 1

\* plugin n holds item x in its bucket, in a scheduler's drained queue or
\* in a batch already sent
Queued(n, x) ==
    x \in Range(bucket[n]) \cup Range(HeldBySchedulers(n)) \cup Range(SentItems(n))

\* C3: for a time-based plugin (interval > 0, threshold 0) the call makes
\* one store call with the content and the ignore-length directive, after
\* which its content is nil and it sends nothing; when the store accepted
\* the call, the scan's content is in the bucket or was drained from it.
\* Everything sent to the plugin is sent by a scheduler.
C3_TimeBasedNeverSynchronous ==
    \A n \in PluginNames : TimeBased(n) =>
        /\ \A j \in 1..Len(sent[n]) : sent[n][j].by[1] = "sched"
        /\ \A c \in Calls :
             (n \in DOMAIN outcome[c] /\ outcome[c][n].rule = 0
              /\ ~(cur[c] = n /\ pc[c] = "aggregate")) =>
                LET o == outcome[c][n]
                    item == BuildContent(scan[c], plugins[n])
                IN /\ Len(o.log) = 1
                   /\ o.log[1].ignoreLength
                   /\ ~o.sent
                   /\ Aggregated(c, n) => content[c] = NilContent
                   /\ ~o.log[1].err => item \in Range(arrived[n]) /\ Queued(n, item)

\* a call has returned after queueing its scan for a time-based plugin, and
\* a scheduler has sent a batch to that plugin
C3_Witness ==
    \E n \in PluginNames, c \in Calls :
        /\ TimeBased(n)
        /\ pc[c] = "returned"
        /\ n \in DOMAIN outcome[c]
        /\ outcome[c][n].rule = 0
        /\ ~outcome[c][n].log[1].err
        /\ Len(sent[n]) > 0

\* the state part of C4: the batches the scheduler sent, the queue it
\* holds and the bucket are, one after the other, the accepted items in
\* arrival order, and no batch sent is empty
C4_FlushedInOrder ==
    \A n \in PluginNames : TimeBased(n) =>
        /\ SentItems(n) \o HeldBySchedulers(n) \o bucket[n] = arrived[n]
        /\ \A j \in 1..Len(sent[n]) :
             /\ sent[n][j].content.kind = "merged"
             /\ Len(sent[n][j].content.items) >= 1

\* the step part of C4: a drain takes the whole bucket, leaves it empty,
\* appends nothing and sends nothing by itself; with an empty bucket the
\* goroutine goes back to sleep; the send that follows a non-empty drain
\* adds exactly one entry, the merge of the drained queue
C4_FlushStep ==
    \A n \in PluginNames : TimeBased(n) =>
        \A i \in 1..Len(sched[n]) :
            /\ (sched[n][i].pc = "drain" /\ sched'[n][i].pc # "drain") =>
                 /\ bucket'[n] = <<>>
                 /\ arrived' = arrived
                 /\ sent' = sent
                 /\ sched'[n][i].queue = bucket[n]
                 /\ sched'[n][i].pc = IF bucket[n] = <<>> THEN "sleep" ELSE "send"
            /\ (sched[n][i].pc = "send" /\ sched'[n][i].pc # "send") =>
                 /\ sched'[n][i].pc = "sleep"
                 /\ sent'[n] = Append(sent[n],
                        [content |-> buildAggregatedContent(sched[n][i].queue,
                                                            plugins[n].provider),
                         by |-> <<"sched", i>>])
                 /\ UNCHANGED <<bucket, arrived>>

\* C4: for a time-based plugin each wake-up of the scheduler drains the
\* whole bucket and sends it as exactly one merged batch, even a single
\* item; a wake-up that finds the bucket empty sends nothing; the drain
\* request appends nothing.
C4_FlushSide == [](C4_FlushedInOrder) /\ [][C4_FlushStep]_vars

\* the scheduler has sent a batch of one item and a batch of several
C4_Witness ==
    \E n \in PluginNames :
        /\ TimeBased(n)
        /\ \E j \in 1..Len(sent[n]) : Len(sent[n][j].content.items) = 1
        /\ \E j \in 1..Len(sent[n]) : Len(sent[n][j].content.items) > 1

\* every place that can hold an item of plugin n, one after the other
Places(n) == bucket[n] \o HeldBySchedulers(n) \o HeldByCalls(n) \o SentItems(n)

\* C5: over an atomic store that does not fail, every item the store
\* accepted for a plugin is in exactly one place: the bucket, a batch a
\* scheduler or a call has drained and not yet sent, or one sent batch.
C5_ExactlyOnePlace ==
    \A n \in PluginNames :
        /\ Len(Places(n)) = Len(arrived[n])
        /\ \A x \in Range(arrived[n]) :
             Count(arrived[n], x) = 1 /\ Count(Places(n), x) = 1

\* two schedulers of one plugin are running, one has sent a batch, the
\* other holds a drained batch
C5_Witness ==
    \E n \in PluginNames :
        /\ Len(sched[n]) = 2
        /\ Len(arrived[n]) = 2
        /\ Len(SentItems(n)) = 1
        /\ Len(HeldBySchedulers(n)) = 1

\* what a scan left with plugin n: the ids of the scans whose content is
\* in the bucket, was accepted by the store, is held by a scheduler or was
\* sent, and of the scans whose call sent something or started a scheduler
Traces(n) ==
    {x.src : x \in Range(bucket[n]) \cup Range(arrived[n])
                   \cup Range(HeldBySchedulers(n)) \cup Range(SentItems(n))}
    \cup {sent[n][j].content.src :
            j \in {k \in 1..Len(sent[n]) : sent[n][k].content.kind = "single"}}
    \cup {sent[n][j].by[2] : j \in {k \in 1..Len(sent[n]) : sent[n][k].by[1] = "call"}}
    \cup {sched[n][i].by : i \in 1..Len(sched[n])}

\* ids of the scans that arrived as repeats of a recorded result
RepeatIds ==
    {id \in 1..Len(arrivals) :
        arrivals[id].valid /\ ~arrivals[id].lookup.err /\ ~arrivals[id].lookup.isNew}

\* C6: a scan that is not new leaves nothing with a plugin whose
\* PolicyShowAll is false: no dispatch, no append, no scheduler start; the
\* call ends the pair at the freshness check, whatever the other options.
C6_FreshnessGate ==
    \A n \in PluginNames : (~plugins[n].nil /\ ~Settings(n).PolicyShowAll) =>
        /\ Traces(n) \cap RepeatIds = {}
        /\ \A c \in Calls :
             (scan[c].input.id \in RepeatIds /\ n \in DOMAIN outcome[c]) =>
                /\ outcome[c][n] = Visited(1)
                /\ ~Handling(c, n)

\* a repeat was rejected for a plugin that has both aggregation modes and
\* policy rules
C6_Witness ==
    \E n \in PluginNames, c \in Calls :
        /\ ~Settings(n).PolicyShowAll
        /\ Settings(n).AggregateIssuesNumber > 0
        /\ Settings(n).AggregateTimeoutSeconds > 0
        /\ Len(Settings(n).PolicyOPA) > 0
        /\ scan[c].input.id \in RepeatIds
        /\ n \in DOMAIN outcome[c]

\* rank of each spelling of a level in Negligible < Low < Medium < High < Critical
LevelRank ==
    [Negligible |-> 0, negligible |-> 0, LOW |-> 1, low |-> 1,
     Medium |-> 2, medium |-> 2, HIGH |-> 3, High |-> 3, high |-> 3,
     CRITICAL |-> 4, critical |-> 4]

\* the finding count of a scan at a rank
CountAt(info, rank) ==
    CASE rank = 0 -> info.Negligible
      [] rank = 1 -> info.Low
      [] rank = 2 -> info.Medium
      [] rank = 3 -> info.High
      [] rank = 4 -> info.Critical

\* C7: with PolicyMinVulnerability naming rank r (in any letter case), the
\* pair is rejected by the minimum-severity check if and only if every
\* finding count at rank >= r is zero.
C7_MinimumSeverity ==
    \A c \in Calls : \A n \in DOMAIN outcome[c] :
        LET level == Settings(n).PolicyMinVulnerability
        IN level \in DOMAIN LevelRank =>
             /\ outcome[c][n].rule \in {0, 2}
             /\ outcome[c][n].rule = 2 <=>
                  \A rank \in LevelRank[level]..4 : CountAt(scan[c].scanInfo, rank) = 0

\* a scan with findings only below the minimum, named in upper case, was
\* rejected
C7_Witness ==
    \E c \in Calls : \E n \in DOMAIN outcome[c] :
        /\ Settings(n).PolicyMinVulnerability = "HIGH"
        /\ scan[c].scanInfo.Medium > 0
        /\ scan[c].scanInfo.Low > 0
        /\ outcome[c][n].rule = 2

\* ids of the scans whose payload did not parse or whose lookup failed
FailedIds ==
    {id \in 1..Len(arrivals) : ~arrivals[id].valid \/ arrivals[id].lookup.err}

\* C8: a scan whose payload does not parse or whose prior-scan lookup fails
\* makes ResultHandling return at once: no plugin is visited, the policy
\* evaluator is not called, and the scan leaves nothing with any plugin.
C8_InitFailureAborts ==
    /\ \A c \in Calls :
         scan[c].input.id \in FailedIds =>
            /\ pc[c] = "returned"
            /\ todo[c] = {}
            /\ outcome[c] = <<>>
    /\ \A n \in PluginNames : Traces(n) \cap FailedIds = {}
    /\ \A e \in evaluated : e[1] \notin FailedIds

\* one scan failed in init and another one was delivered
C8_Witness ==
    /\ \E c \in Calls : scan[c].input.id \in FailedIds
    /\ \E id \in FailedIds : arrivals[id].valid
    /\ \E n \in PluginNames : Len(sent[n]) > 0

\* C9: a pair the policy evaluator rejects (error or negative verdict)
\* leaves nothing with that plugin; the call goes on: when it returns it
\* has visited every plugin, each other plugin got the verdict its own
\* settings give, and a pair that passed was handed to the store or sent.
C9_EvaluatorFailureIsLocal ==
    /\ \A e \in evaluated : e[3] # "allow" => e[1] \notin Traces(e[2])
    /\ \A c \in Calls :
         /\ \A n \in DOMAIN outcome[c] :
              /\ outcome[c][n].rule = 9 => outcome[c][n] = Visited(9) /\ ~Handling(c, n)
              /\ Len(Settings(n).PolicyOPA) = 0 =>
                   outcome[c][n].rule =
                      FirstFailing(scan[c].scanInfo, scan[c].isNew, Settings(n), "allow")
              /\ (outcome[c][n].rule = 0 /\ ~Handling(c, n)) =>
                   Len(outcome[c][n].log) = 1 \/ outcome[c][n].sent
         /\ (pc[c] = "returned" /\ scan[c].input.id > 0 /\ ~scan[c].err) =>
              DOMAIN outcome[c] = PluginNames

\* the evaluator failed for p1 and the same call queued the scan for p2
C9_Witness ==
    \E c \in Calls :
        /\ pc[c] = "returned"
        /\ DOMAIN outcome[c] = PluginNames
        /\ outcome[c]["p1"].rule = 9
        /\ <<scan[c].input.id, "p1", "error">> \in evaluated
        /\ outcome[c]["p2"].rule = 0
        /\ Len(outcome[c]["p2"].log) = 1

\* C10: when a store call of a (call, plugin) pair returned an error, that
\* call sends nothing to the plugin.
C10_StoreErrorSuppressesDispatch ==
    \A c \in Calls : \A n \in DOMAIN outcome[c] :
        (\E k \in 1..Len(outcome[c][n].log) : outcome[c][n].log[k].err) =>
            ~outcome[c][n].sent

\* plugin n has neither aggregation mode
Unaggregated(n) ==
    /\ ~plugins[n].nil
    /\ Settings(n).AggregateIssuesNumber = 0
    /\ Settings(n).AggregateTimeoutSeconds = 0

\* a call is working on scan id and has not ended its iteration for plugin n
Pending(id, n) ==
    \E c \in Calls :
        /\ scan[c].input.id = id
        /\ n \in todo[c]

\* ids of the scans for which scan.init returned an error: the failures of
\* FailedIds and a previous payload that did not parse
AbortedIds ==
    FailedIds \cup
    {id \in 1..Len(arrivals) :
        /\ arrivals[id].lookup.isNew
        /\ Len(arrivals[id].lookup.prev) > 0
        /\ ~arrivals[id].lookup.prev[1].valid}

\* scan id passed the gate of plugin n, from what arrived and what the
\* evaluator answered (the plugins of the specifications set no other rule)
PassedGate(id, n) ==
    /\ id \notin AbortedIds
    /\ arrivals[id].lookup.isNew \/ Settings(n).PolicyShowAll
    /\ Len(Settings(n).PolicyOPA) > 0 => <<id, n, "allow">> \in evaluated
    /\ ~Pending(id, n)

\* C11: for a plugin with threshold 0 and interval 0 the store is never
\* called, its bucket stays empty and no scheduler exists; every scan that
\* passed its gate has exactly one entry among the sends, made by the
\* scan's own call and carrying that scan's content alone, and no other
\* send exists.
C11_NoAggregation ==
    \A n \in PluginNames : Unaggregated(n) =>
        /\ \A r \in requests : r.name # n
        /\ bucket[n] = <<>> /\ arrived[n] = <<>>
        /\ sched[n] = <<>> /\ ~Settings(n).IsScheduleRun
        /\ \A j \in 1..Len(sent[n]) :
             /\ sent[n][j].content.kind = "single"
             /\ sent[n][j].by = <<"call", sent[n][j].content.src>>
             /\ PassedGate(sent[n][j].content.src, n)
        /\ \A id \in 1..Len(arrivals) :
             Cardinality({j \in 1..Len(sent[n]) : sent[n][j].by = <<"call", id>>})
               = IF PassedGate(id, n) THEN 1 ELSE 0
        /\ \A c \in Calls :
             (n \in DOMAIN outcome[c] /\ outcome[c][n].rule = 0 /\ ~Handling(c, n)) =>
                /\ outcome[c][n] = [Visited(0) EXCEPT !.sent = TRUE]
                /\ \E j \in 1..Len(sent[n]) :
                     sent[n][j] = [content |-> BuildContent(scan[c], plugins[n]),
                                   by |-> <<"call", scan[c].input.id>>]

\* a plugin without aggregation and with policy rules got one scan that
\* passed its gate, sent at once, and one that its gate rejected
C11_Witness ==
    \E n \in PluginNames :
        /\ Unaggregated(n)
        /\ Len(Settings(n).PolicyOPA) > 0
        /\ Len(sent[n]) = 1
        /\ nscans = 2
        /\ \E id \in 1..Len(arrivals) : id \notin AbortedIds /\ ~PassedGate(id, n)
        /\ \A c \in Calls : pc[c] \in {"idle", "returned"}

\* C12: with Send calls that never return, every call that has begun
\* goes through the remaining plugins and returns, and a scheduler that
\* has issued a send goes back to sleep; the hanging Send stays the only
\* task that is blocked.
C12_FireAndForget ==
    /\ \A c \in Calls : (pc[c] \notin {"idle", "returned"}) ~> (pc[c] = "returned")
    /\ \A n \in PluginNames, i \in 1..MaxScans :
         (i <= Len(sched[n]) /\ sched[n][i].pc = "send")
            ~> (i <= Len(sched[n]) /\ sched[n][i].pc = "sleep")
    /\ [](\A n \in PluginNames : \A j \in delivered[n] : ~Hangs(n, j))

\* the first send of a call to p1 and the first send of p2's scheduler hang;
\* the calls have returned all the same, a later scan was sent to p1 and
\* that Send returned, and the scheduler has flushed a second time
C12_Witness ==
    /\ \A c \in Calls : pc[c] \in {"idle", "returned"}
    /\ Len(sent["p1"]) = 2 /\ delivered["p1"] = {2}
    /\ sent["p1"][1].by = <<"call", 1>> /\ sent["p1"][2].by = <<"call", 2>>
    /\ Len(sent["p2"]) = 2 /\ delivered["p2"] = {2}
    /\ sent["p2"][1].by[1] = "sched" /\ sent["p2"][2].by[1] = "sched"
    /\ \A i \in 1..Len(sched["p2"]) : sched["p2"][i].pc = "sleep"

\* the requests the schedulers made of the store
DrainRequests == {r \in requests : r.by = "sched"}

\* C13 as stated: the drain request of the scheduler has content == nil and
\* ignoreLength == true.
C13_DrainIgnoresLength ==
    \A r \in DrainRequests : r.nilContent /\ r.ignoreLength

\* C13: the drain request of the scheduler has content == nil, threshold 0
\* and ignoreLength == false; the requests of the calls all carry content,
\* so no request with content == nil and ignoreLength == true is ever made.
C13_DrainRequestShape ==
    /\ \A r \in DrainRequests : r.nilContent /\ r.counts = 0 /\ ~r.ignoreLength
    /\ \A r \in requests \ DrainRequests : ~r.nilContent
    /\ \A r \in requests : ~(r.nilContent /\ r.ignoreLength)

\* a scheduler has made its request, got a batch and sent it
C13_Witness ==
    \E n \in PluginNames :
        /\ \E r \in DrainRequests : r.name = n
        /\ \E j \in 1..Len(sent[n]) : sent[n][j].by[1] = "sched"

\* the order of the checks, by the option each one reads
GateOrder ==
    <<"PolicyShowAll", "PolicyMinVulnerability", "IgnoreRegistry",
      "IgnoreImageName", "PolicyImageName", "PolicyRegistry",
      "PolicyNonCompliant", "PolicyOnlyFixAvailable", "PolicyOPA">>

\* whether the check that reads `option` rejects scan s for settings st;
\* verdicts: what the evaluator answered for the pair, if it was called
Rejects(option, s, st, verdicts) ==
    CASE option = "PolicyShowAll" -> ~s.isNew /\ ~st.PolicyShowAll
      [] option = "PolicyMinVulnerability" ->
           /\ st.PolicyMinVulnerability # ""
           /\ \A rank \in SeverityIndexes[ToLower(st.PolicyMinVulnerability)]..4 :
                CountAt(s.scanInfo, rank) = 0
      [] option = "IgnoreRegistry" ->
           \E k \in 1..Len(st.IgnoreRegistry) :
              Matches(st.IgnoreRegistry[k], s.scanInfo.Registry)
      [] option = "IgnoreImageName" ->
           \E k \in 1..Len(st.IgnoreImageName) :
              Matches(st.IgnoreImageName[k], ImageName(s.scanInfo))
      [] option = "PolicyImageName" ->
           /\ Len(st.PolicyImageName) > 0
           /\ \A k \in 1..Len(st.PolicyImageName) :
                ~Matches(st.PolicyImageName[k], ImageName(s.scanInfo))
      [] option = "PolicyRegistry" ->
           /\ Len(st.PolicyRegistry) > 0
           /\ \A k \in 1..Len(st.PolicyRegistry) :
                ~Matches(st.PolicyRegistry[k], s.scanInfo.Registry)
      [] option = "PolicyNonCompliant" ->
           st.PolicyNonCompliant /\ ~s.scanInfo.Disallowed
      [] option = "PolicyOnlyFixAvailable" ->
           st.PolicyOnlyFixAvailable /\ ~checkFixVersions(s.scanInfo)
      [] option = "PolicyOPA" ->
           Len(st.PolicyOPA) > 0 /\ verdicts # {"allow"}

\* C14: the check whose rejection ends a pair is the first one, in the
\* fixed order, that rejects; the evaluator is called for a pair, once,
\* exactly when PolicyOPA is not empty and the eight checks before it pass;
\* a rejected pair builds no content and leaves nothing with the plugin,
\* and a pair is handed on only when no check rejects.
C14_OrderedShortCircuit ==
    \A c \in Calls : \A n \in DOMAIN outcome[c] :
        ~plugins[n].nil =>
            LET r == outcome[c][n].rule
                st == Settings(n)
                verdicts == {e[3] : e \in {x \in evaluated :
                                 x[1] = scan[c].input.id /\ x[2] = n}}
                rejecting == {k \in 1..Len(GateOrder) :
                                 Rejects(GateOrder[k], scan[c], st, verdicts)}
                early == rejecting \cap 1..8
            IN /\ r \in 0..9
               /\ r # 0 => r \in rejecting /\ \A k \in rejecting : r <= k
               /\ r = 0 => rejecting = {}
               /\ Cardinality(verdicts) <= 1
               /\ verdicts # {} <=> (Len(st.PolicyOPA) > 0 /\ early = {})
               /\ r # 0 => /\ outcome[c][n] = Visited(r)
                           /\ ~Handling(c, n)
                           /\ scan[c].input.id \notin Traces(n)

\* a pair was rejected by the eighth check with the seven options before
\* it all set and passing, and with policy rules that were not evaluated
C14_Witness ==
    \E c \in Calls : \E n \in DOMAIN outcome[c] :
        LET st == Settings(n)
        IN /\ ~plugins[n].nil
           /\ outcome[c][n].rule = 8
           /\ ~st.PolicyShowAll /\ st.PolicyMinVulnerability # ""
           /\ Len(st.IgnoreRegistry) > 0 /\ Len(st.IgnoreImageName) > 0
           /\ Len(st.PolicyImageName) > 0 /\ Len(st.PolicyRegistry) > 0
           /\ st.PolicyNonCompliant /\ Len(st.PolicyOPA) > 0
           /\ evaluated = {}

\* plugin n has at least one aggregation mode
Aggregating(n) ==
    /\ ~plugins[n].nil
    /\ Settings(n).AggregateIssuesNumber > 0 \/ Settings(n).AggregateTimeoutSeconds > 0

\* C15: for a plugin with an aggregation mode and a store that does not
\* fail, a call makes exactly one store call for a pair that passed the
\* gate, and the store holds the scan's content exactly once; the call is
\* the count step's (no ignore-length directive) whenever the threshold is
\* set, also when the interval is set too, and the time step's otherwise.
C15_SingleAppend ==
    \A n \in PluginNames : Aggregating(n) =>
        /\ \A id \in 1..Len(arrivals) :
             Cardinality({j \in 1..Len(arrived[n]) : arrived[n][j].src = id})
               = IF PassedGate(id, n)
                    \/ \E c \in Calls : scan[c].input.id = id /\ Aggregated(c, n)
                 THEN 1 ELSE 0
        /\ \A c \in Calls :
             (n \in DOMAIN outcome[c] /\ outcome[c][n].rule = 0
              /\ ~(cur[c] = n /\ pc[c] = "aggregate")) =>
                /\ Len(outcome[c][n].log) = 1
                /\ outcome[c][n].log[1] =
                     [ignoreLength |-> Settings(n).AggregateIssuesNumber = 0,
                      err |-> FALSE]
                /\ Count(arrived[n], BuildContent(scan[c], plugins[n])) = 1

\* a call has returned after queueing its scan for a plugin with both
\* modes, by one store call without the ignore-length directive, and has
\* started the scheduler
C15_Witness ==
    \E n \in PluginNames, c \in Calls :
        /\ Settings(n).AggregateIssuesNumber > 0
        /\ Settings(n).AggregateTimeoutSeconds > 0
        /\ pc[c] = "returned"
        /\ n \in DOMAIN outcome[c]
        /\ outcome[c][n].log = <<[ignoreLength |-> FALSE, err |-> FALSE]>>
        /\ outcome[c][n].spawned

\* the store accepted the content of scan id for plugin n
Appended(n, id) == \E x \in Range(arrived[n]) : x.src = id

\* a batch that holds the content of scan id was handed to send for plugin n
HandedToSend(n, id) == \E x \in Range(SentItems(n)) : x.src = id

\* C16: with a store that does not fail and goroutines scheduled fairly,
\* for a plugin with interval > 0 every item the store accepted is
\* eventually in a batch handed to send, and every scheduler that was
\* started wakes up again and again: the loop does not end.
C16_EventualDelivery ==
    /\ \A n \in PluginNames, id \in 1..MaxScans :
         (Settings(n).AggregateTimeoutSeconds > 0 /\ Appended(n, id))
            ~> HandedToSend(n, id)
    /\ \A n \in PluginNames, i \in 1..MaxScans :
         (i <= Len(sched[n])) ~> (i <= Len(sched[n]) /\ sched[n][i].pc = "drain")
    /\ \A n \in PluginNames, i \in 1..MaxScans :
         (i <= Len(sched[n]) /\ sched[n][i].pc = "drain")
            ~> (i <= Len(sched[n]) /\ sched[n][i].pc = "sleep")

\* the scheduler of a plugin with both modes has sent the one item that
\* was queued below the threshold and has woken up again
C16_Witness ==
    \E n \in PluginNames :
        /\ Settings(n).AggregateIssuesNumber > 0
        /\ Settings(n).AggregateTimeoutSeconds > 0
        /\ Len(arrived[n]) = 1
        /\ HandedToSend(n, arrived[n][1].src)
        /\ Len(sched[n]) = 1
        /\ sched[n][1].pc = "drain"

\* plugin n has both aggregation modes
CountAndTime(n) ==
    /\ ~plugins[n].nil
    /\ Settings(n).AggregateIssuesNumber > 0
    /\ Settings(n).AggregateTimeoutSeconds > 0

\* q is a run of consecutive elements of sequence a
Segment(q, a) ==
    \E from \in 1..Len(a) + 1 :
        /\ from + Len(q) - 1 <= Len(a)
        /\ q = SubSeq(a, from, from + Len(q) - 1)

\* the state part of C17: the sizes of the batches and of the bucket
C17_BatchSizes ==
    \A n \in PluginNames : CountAndTime(n) =>
        LET N == Settings(n).AggregateIssuesNumber
        IN /\ Len(bucket[n]) < N
           /\ \A j \in 1..Len(sent[n]) :
                LET batch == sent[n][j]
                IN /\ batch.content.kind = "merged"
                   /\ Segment(batch.content.items, arrived[n])
                   /\ batch.by[1] = "call" => Len(batch.content.items) = N
                   /\ batch.by[1] = "sched" => Len(batch.content.items) \in 1..(N - 1)
           /\ \A c \in Calls :
                (Aggregated(c, n) /\ ContentLen(content[c]) > 0) =>
                   Len(content[c].items) = N
           /\ \A i \in 1..Len(sched[n]) :
                /\ Len(sched[n][i].queue) < N
                /\ sched[n][i].pc = "send" => Len(sched[n][i].queue) >= 1

\* the step part of C17: a flush takes what the count step has queued
\* below the threshold and leaves the window empty; an arrival appends its
\* item to the window and takes the whole window when it has N items
C17_WindowStep ==
    \A n \in PluginNames : CountAndTime(n) =>
        LET N == Settings(n).AggregateIssuesNumber
        IN /\ \A i \in 1..Len(sched[n]) :
                (sched[n][i].pc = "drain" /\ sched'[n][i].pc # "drain") =>
                   /\ sched'[n][i].queue = bucket[n]
                   /\ bucket'[n] = <<>>
           /\ \A c \in Calls :
                (cur[c] = n /\ pc[c] = "aggregate" /\ pc'[c] # "aggregate") =>
                   LET window == Append(bucket[n], content[c])
                   IN IF Len(window) = N
                      THEN /\ bucket'[n] = <<>>
                           /\ content'[c] =
                                buildAggregatedContent(window, plugins[n].provider)
                      ELSE /\ bucket'[n] = window
                           /\ content'[c] = NilContent

\* C17: for a plugin with threshold N > 0 and interval > 0, every batch a
\* call sends has exactly N items and every batch the scheduler sends has
\* between 1 and N-1, each a run of consecutive arrivals; a flush takes the
\* items queued below the threshold and the window restarts from empty.
C17_BothModes == [](C17_BatchSizes) /\ [][C17_WindowStep]_vars

\* with threshold 3, the scheduler has sent a batch of two items and, after
\* it, a call has sent a batch of three
C17_Witness ==
    \E n \in PluginNames :
        /\ CountAndTime(n)
        /\ Settings(n).AggregateIssuesNumber = 3
        /\ Len(sent[n]) = 2
        /\ sent[n][1].by[1] = "sched" /\ Len(sent[n][1].content.items) = 2
        /\ sent[n][2].by[1] = "call" /\ Len(sent[n][2].content.items) = 3

\* the gate of plugin n has let some scan through
HadPassingScan(n) ==
    \E id \in 1..Len(arrivals) :
        /\ id \notin AbortedIds
        /\ arrivals[id].lookup.isNew \/ Settings(n).PolicyShowAll
        /\ Len(Settings(n).PolicyOPA) > 0 => <<id, n, "allow">> \in evaluated
        /\ \A c \in Calls : scan[c].input.id = id => n \in DOMAIN outcome[c]

\* the state part of C18
C18_FlagImpliesScheduler ==
    \A n \in PluginNames : ~plugins[n].nil =>
        /\ Settings(n).IsScheduleRun => Len(sched[n]) >= 1
        /\ (Settings(n).AggregateTimeoutSeconds = 0 \/ ~HadPassingScan(n)) =>
              ~Settings(n).IsScheduleRun /\ sched[n] = <<>>

\* the step part of C18: no step resets the flag
C18_FlagStaysSet ==
    \A n \in PluginNames :
        (~plugins[n].nil /\ Settings(n).IsScheduleRun) =>
            (~plugins'[n].nil /\ plugins'[n].settings.IsScheduleRun)

\* C18: IsScheduleRun of a plugin is true only when a scheduler goroutine
\* of the plugin has been started; it is false, and no scheduler exists,
\* while the interval is 0 or no scan has passed the plugin's gate; once
\* true it stays true.
C18_FlagInvariant == [](C18_FlagImpliesScheduler) /\ [][C18_FlagStaysSet]_vars

\* a repeat was shown to p1, whose flag is now set, and was rejected by p2,
\* which has an interval and still has no scheduler
C18_Witness ==
    /\ Settings("p1").IsScheduleRun
    /\ Settings("p2").AggregateTimeoutSeconds > 0
    /\ ~Settings("p2").IsScheduleRun
    /\ \A c \in Calls : pc[c] \in {"idle", "returned"}
    /\ nscans = 1
    /\ 1 \in RepeatIds

\* the state part of C19: a pair that was rejected, or whose plugin is nil,
\* has made no store call, no send and no scheduler, and is not handled
C19_RejectedDoesNothing ==
    \A c \in Calls : \A n \in DOMAIN outcome[c] :
        outcome[c][n].rule # 0 =>
            /\ outcome[c][n] = Visited(outcome[c][n].rule)
            /\ ~Handling(c, n)
            /\ plugins[n].nil <=> outcome[c][n].rule = -1

\* the step part of C19: the step in which a pair is rejected ends the
\* pair and changes nothing but the position of the call
C19_RejectionStep ==
    \A c \in Calls : \A n \in PluginNames :
        (n \notin DOMAIN outcome[c] /\ n \in DOMAIN outcome'[c]
         /\ outcome'[c][n].rule # 0) =>
            /\ UNCHANGED <<plugins, bucket, arrived, requests, sched, sent,
                           delivered, content, wasHandled>>
            /\ \A m \in DOMAIN outcome[c] : outcome'[c][m] = outcome[c][m]
            /\ \A d \in Calls \ {c} : outcome'[d] = outcome[d] /\ pc'[d] = pc[d]
            /\ todo'[c] = todo[c] \ {n}
            /\ pc'[c] = IF todo'[c] = {} THEN "returned" ELSE "loop"

\* C19: processing a pair that a gate check rejects, or whose plugin entry
\* is nil, leaves every bucket and every IsScheduleRun flag as they were,
\* starts no scheduler and no send, and leaves what the call did for the
\* other plugins as it was; the call goes on to the next plugin.
C19_RejectionFrame == [](C19_RejectedDoesNothing) /\ [][C19_RejectionStep]_vars

\* a call queued its scan for p2 and started p2's scheduler, then rejected
\* the pair of p1 at the external policy rules; p2's bucket still holds
\* the scan
C19_Witness ==
    \E c \in Calls :
        /\ DOMAIN outcome[c] = PluginNames
        /\ outcome[c]["p1"].rule = 9
        /\ outcome[c]["p2"].rule = 0 /\ outcome[c]["p2"].spawned
        /\ Settings("p2").IsScheduleRun
        /\ Len(bucket["p2"]) = 1
        /\ pc[c] = "returned"

====
